---- MODULE Spec2Model ----
(***************************************************************************)
(* Model of src/src/main.rs: a command timer.  The program parses its      *)
(* arguments, optionally blocks on standard input, runs the target command *)
(* `runs` times while timing each run, prints an aggregate (JSON or        *)
(* human-readable), and lists the running processes whose name contains    *)
(* "riot" or "league".                                                     *)
(*                                                                         *)
(* Representation choices:                                                 *)
(*   - Option<T> is a sequence: None == <<>>, Some(x) == <<x>>.            *)
(*   - a text (argument token, process name) that the code inspects is a   *)
(*     sequence of one-character strings.                                  *)
(*   - an f64 number of seconds is an exact fraction of clock ticks,       *)
(*     [num, den]; 0/0 is NaN.  TicksPerMilli ticks make one millisecond.  *)
(***************************************************************************)
EXTENDS Integers, Sequences, FiniteSets, TLC

\* ------------------------------------------------------------------ bounds

\* Largest run count given on the command line.
MaxRuns == 2

\* Clock resolution of the model: ticks per millisecond.
TicksPerMilli == 2

\* Elapsed times (in ticks) a run of the child may take.
ElapsedTicks == {1, 2}

\* Exit codes a child may end with (None: killed by a signal).
ChildCodes == {<<>>, <<0>>, <<1>>}

\* ------------------------------------------------------------ Option, f64

None == <<>>

Some(x) == <<x>>

NaN == [num |-> 0, den |-> 0]

F64(ticks) == [num |-> ticks, den |-> 1]

IsNaN(x) == x.den = 0

RECURSIVE SumSeq(_)
\* times.iter().sum::<f64>()
SumSeq(s) == IF s = <<>> THEN 0 ELSE s[1] + SumSeq(Tail(s))

MeanSkipFirst(ts) ==
    [num |-> IF ts = <<>> THEN 0 ELSE SumSeq(Tail(ts)), den |-> Len(ts)]

\* times.iter().sum::<f64>() / times.len() as f64 ; 0.0 / 0.0 is NaN
Mean(ts) == [num |-> SumSeq(ts), den |-> Len(ts)]

\* "{:.3}" of a number of seconds: the number of milliseconds, to nearest,
\* an exact tie going to the even neighbour; NaN prints as NaN.
Fmt3(x) ==
    IF IsNaN(x) THEN [nan |-> TRUE, millis |-> 0]
    ELSE LET d == x.den * TicksPerMilli
             q == x.num \div d
             r == x.num % d
         IN  [nan |-> FALSE,
              millis |-> IF 2 * r > d \/ (2 * r = d /\ q % 2 = 1) THEN q + 1 ELSE q]

\* serde_json writes a non-finite f64 as null, any other in full precision.
JsonF64(x) == IF IsNaN(x) THEN [null |-> TRUE, num |-> 0, den |-> 0]
              ELSE [null |-> FALSE, num |-> x.num, den |-> x.den]

\* ----------------------------------------------------------- command line

DigitChars == <<"0", "1", "2", "3", "4", "5", "6", "7", "8", "9">>

IsDigit(c) == \E d \in 1..10 : DigitChars[d] = c

DigitVal(c) == (CHOOSE d \in 1..10 : DigitChars[d] = c) - 1

RECURSIVE ParseDigits(_, _)
ParseDigits(s, acc) ==
    IF s = <<>> THEN Some(acc)
    ELSE IF IsDigit(s[1]) THEN ParseDigits(Tail(s), 10 * acc + DigitVal(s[1]))
    ELSE None

\* <usize as FromStr>::from_str: an optional '+', then one or more digits.
ParseUsize(s) ==
    LET body == IF s # <<>> /\ s[1] = "+" THEN Tail(s) ELSE s
    IN  IF body = <<>> THEN None ELSE ParseDigits(body, 0)

\* The -n values tried: absent, every count up to MaxRuns, and malformed ones.
RunsTokens ==
    {None} \cup {Some(<<DigitChars[n + 1]>>) : n \in 0..MaxRuns}
           \cup {Some(<<"+", "2">>), Some(<<"-", "1">>), Some(<<"x">>), Some(<<>>)}

CmdLists == {<<>>, <<"echo", "hi">>}

Platforms == {"windows", "other"}

Argvs == [runs : RunsTokens, json : BOOLEAN, wait : BOOLEAN, cmd : CmdLists]

\* #[arg(short = 'n', long, default_value_t = 1)] runs: usize
ResolveRuns(tok) == IF tok = None THEN Some(1) ELSE ParseUsize(tok[1])

ResolveCmdAny(cmd) == Some(cmd)

\* #[arg(trailing_var_arg = true, required = true)] cmd: Vec<String>
ResolveCmd(cmd) == IF Len(cmd) = 0 THEN None ELSE Some(cmd)

NoArgs == [runs |-> 0, json |-> FALSE, wait |-> FALSE, cmd |-> <<>>]

\* ------------------------------------------------------- process snapshot

LowerChars ==
    <<"a", "b", "c", "d", "e", "f", "g", "h", "i", "j", "k", "l", "m",
      "n", "o", "p", "q", "r", "s", "t", "u", "v", "w", "x", "y", "z">>

UpperChars ==
    <<"A", "B", "C", "D", "E", "F", "G", "H", "I", "J", "K", "L", "M",
      "N", "O", "P", "Q", "R", "S", "T", "U", "V", "W", "X", "Y", "Z">>

\* u8::to_ascii_lowercase: 'A'..='Z' map to 'a'..='z', every other byte stays.
CharToAsciiLowercase(c) ==
    IF \E k \in 1..26 : UpperChars[k] = c
    THEN LowerChars[CHOOSE k \in 1..26 : UpperChars[k] = c]
    ELSE c

\* str::to_ascii_lowercase
ToAsciiLowercase(s) == [k \in 1..Len(s) |-> CharToAsciiLowercase(s[k])]

\* hay[from..] starts with pat
StartsWithAt(hay, pat, from) ==
    /\ from + Len(pat) - 1 <= Len(hay)
    /\ SubSeq(hay, from, from + Len(pat) - 1) = pat

RECURSIVE ContainsFrom(_, _, _)
ContainsFrom(hay, pat, from) ==
    IF from + Len(pat) - 1 > Len(hay) THEN FALSE
    ELSE IF StartsWithAt(hay, pat, from) THEN TRUE
    ELSE ContainsFrom(hay, pat, from + 1)

\* str::contains(&str): a left-to-right search for the pattern
Contains(hay, pat) == ContainsFrom(hay, pat, 1)

KwRiot == <<"r", "i", "o", "t">>

KwLeague == <<"l", "e", "a", "g", "u", "e">>

IsRiotOrLeagueCaseSensitive(name) == Contains(name, KwRiot) \/ Contains(name, KwLeague)

\* name_lc.contains("riot") || name_lc.contains("league")
IsRiotOrLeague(name) ==
    LET name_lc == ToAsciiLowercase(name)
    IN  Contains(name_lc, KwRiot) \/ Contains(name_lc, KwLeague)

NameRiotClientServices ==
    <<"R", "i", "o", "t", "C", "l", "i", "e", "n", "t",
      "S", "e", "r", "v", "i", "c", "e", "s">>

NameLeagueClient == <<"L", "e", "a", "g", "u", "e", "C", "l", "i", "e", "n", "t">>

NameNotepad == <<"n", "o", "t", "e", "p", "a", "d">>

NameShoutedRiot == <<"R", "I", "O", "T">>

NameLeagu == <<"l", "e", "a", "g", "u", "-", "e">>

NameMixed == <<"x", "L", "e", "A", "g", "U", "e", "R", "i", "o">>

Proc(name, cpu, mem) == [name |-> name, cpu_usage |-> cpu, memory |-> mem]

\* What the operating system may report: pid -> process.  The first list is
\* empty, the second is the fabricated list of the specification, the third
\* holds an upper-case name, a mixed-case one and a near miss.
SnapshotA == [pid \in {} |-> Proc(<<>>, 0, 0)]

SnapshotB ==
    [pid \in {101, 202, 303} |->
        IF pid = 101 THEN Proc(NameRiotClientServices, 15, 2048)
        ELSE IF pid = 202 THEN Proc(NameLeagueClient, 3, 4096)
        ELSE Proc(NameNotepad, 0, 512)]

SnapshotC ==
    [pid \in {7, 8, 9} |->
        IF pid = 7 THEN Proc(NameShoutedRiot, 1, 64)
        ELSE IF pid = 8 THEN Proc(NameMixed, 9, 128)
        ELSE Proc(NameLeagu, 0, 32)]

Snapshots == {SnapshotA, SnapshotB, SnapshotC}

\* ------------------------------------------------------------------ state

VARIABLES
    argv,        \* the invocation: raw -n token, --json, --wait, trailing words
    platform,    \* the target_os the binary was built for
    pc,          \* where main is
    args,        \* the parsed Args
    stdout,      \* the lines written to standard output, in order
    reads,       \* calls of stdin().read made
    consumed,    \* bytes taken from standard input
    times,       \* main's times
    last_code,   \* main's last_code
    iter,        \* iterations of the run loop completed
    starts,      \* start timestamps taken (Instant::now)
    spawned,     \* argv of every child launch attempted, in order
    alive,       \* children running
    outcomes,    \* what each finished child did: exit code and duration
    mean,        \* main's mean
    sys,         \* the System snapshot, once taken
    snapshots,   \* snapshots taken
    pending,     \* processes of sys the listing loop has not visited yet
    exit         \* the process exit code, None while running

vars ==
    <<argv, platform, pc, args, stdout, reads, consumed, times,
      last_code, iter, starts, spawned, alive, outcomes, mean, sys, snapshots,
      pending, exit>>

\* Exit codes: success, an Err returned from main, a clap usage error, a panic.
ExitSuccess == 0

ExitFailure == 1

ExitUsage == 2

ExitPanic == 101

Init ==
    /\ argv \in Argvs
    /\ platform \in Platforms
    /\ pc = "parse"
    /\ args = NoArgs
    /\ stdout = <<>>
    /\ reads = 0
    /\ consumed = 0
    /\ times = <<>>
    /\ last_code = None
    /\ iter = 0
    /\ starts = 0
    /\ spawned = <<>>
    /\ alive = 0
    /\ outcomes = <<>>
    /\ mean = NaN
    /\ sys = <<>>
    /\ snapshots = 0
    /\ pending = {}
    /\ exit = None

\* ------------------------------------------------------------ Args::parse

\* Args::parse(): the parsed arguments, or None for a usage error.
ParseArgs(av) ==
    LET r == ResolveRuns(av.runs)
        c == ResolveCmd(av.cmd)
    IN  IF r = None \/ c = None THEN None
        ELSE Some([runs |-> r[1], json |-> av.json, wait |-> av.wait, cmd |-> c[1]])

\* let args = Args::parse();  -- clap prints the usage and exits on an error
Parse ==
    /\ pc = "parse"
    /\ LET a == ParseArgs(argv)
       IN  IF a = None
           THEN /\ pc' = "done"
                /\ exit' = Some(ExitUsage)
                /\ args' = args
           ELSE /\ pc' = "gate"
                /\ args' = a[1]
                /\ exit' = exit
    /\ UNCHANGED <<argv, platform, stdout, reads, consumed, times,
                   last_code, iter, starts, spawned, alive, outcomes, mean, sys,
                   snapshots, pending>>

\* ---------------------------------------------- wait_for_enter_if_requested

PromptLine == [kind |-> "prompt"]

\* wait_for_enter_if_requested(false): nothing happens
GateSkip ==
    /\ pc = "gate"
    /\ ~args.wait
    /\ pc' = "loop"
    /\ UNCHANGED <<argv, platform, args, stdout, reads, consumed,
                   times, last_code, iter, starts, spawned, alive, outcomes, mean,
                   sys, snapshots, pending, exit>>

\* print!(..); io::stdout().flush()?  -- the flush may fail
GatePrompt ==
    /\ pc = "gate"
    /\ args.wait
    /\ stdout' = Append(stdout, PromptLine)
    /\ \E flushed \in BOOLEAN :
         IF flushed
         THEN pc' = "read" /\ exit' = exit
         ELSE pc' = "done" /\ exit' = Some(ExitFailure)
    /\ UNCHANGED <<argv, platform, args, reads, consumed, times,
                   last_code, iter, starts, spawned, alive, outcomes, mean, sys,
                   snapshots, pending>>

\* let _ = io::stdin().read(&mut [0u8])?;  -- Ok(1), Ok(0) at end-of-input, or Err
GateRead ==
    /\ pc = "read"
    /\ reads' = reads + 1
    /\ \E got \in {"byte", "eof", "err"} :
         IF got = "err"
         THEN /\ consumed' = consumed
              /\ pc' = "done"
              /\ exit' = Some(ExitFailure)
         ELSE /\ consumed' = consumed + (IF got = "byte" THEN 1 ELSE 0)
              /\ pc' = "loop"
              /\ exit' = exit
    /\ UNCHANGED <<argv, platform, args, stdout, times, last_code,
                   iter, starts, spawned, alive, outcomes, mean, sys, snapshots,
                   pending>>

\* --------------------------------------------------------- the run loop

\* spawn_cross_platform: the command line handed to the operating system
ChildArgv(os, cmd) ==
    IF os = "windows"
    THEN <<"cmd", "/C", cmd[1]>> \o SubSeq(cmd, 2, Len(cmd))
    ELSE <<cmd[1]>> \o SubSeq(cmd, 2, Len(cmd))

RunLinesCodeOnly(code, elapsed) == << [kind |-> "exited", code |-> code] >>

\* println!("Command exited with: {:?}", status.code());
\* println!("Elapsed time: {:.3} seconds", elapsed);
RunLines(code, elapsed) ==
    << [kind |-> "exited", code |-> code],
       [kind |-> "elapsed", secs3 |-> Fmt3(elapsed)] >>

KeepFirstCode(old, code) == IF old = None THEN code ELSE old

\* last_code = status.code();
NextLastCode(old, code) == code

PushOverwrites(ts, elapsed) == <<elapsed>>

\* times.push(elapsed);
Push(ts, elapsed) == Append(ts, elapsed)

\* for _ in 0..args.runs { let start = Instant::now();
StartRun ==
    /\ pc = "loop"
    /\ iter < args.runs
    /\ starts' = starts + 1
    /\ pc' = "spawn"
    /\ UNCHANGED <<argv, platform, args, stdout, reads, consumed, times,
                   last_code, iter, spawned, alive, outcomes, mean, sys,
                   snapshots, pending, exit>>

\* Command::status(), first half: the child is launched.  &cmd[0] panics on
\* an empty vector.
SpawnOk ==
    /\ pc = "spawn"
    /\ IF Len(args.cmd) = 0
       THEN /\ pc' = "done"
            /\ exit' = Some(ExitPanic)
            /\ UNCHANGED <<spawned, alive>>
       ELSE /\ spawned' = Append(spawned, ChildArgv(platform, args.cmd))
            /\ alive' = alive + 1
            /\ pc' = "wait"
            /\ exit' = exit
    /\ UNCHANGED <<argv, platform, args, stdout, reads, consumed, times,
                   last_code, iter, starts, outcomes, mean, sys, snapshots,
                   pending>>

SpawnFailContinues ==
    /\ pc = "spawn"
    /\ Len(args.cmd) > 0
    /\ spawned' = Append(spawned, ChildArgv(platform, args.cmd))
    /\ iter' = iter + 1
    /\ pc' = "loop"
    /\ UNCHANGED <<argv, platform, args, stdout, reads, consumed, times,
                   last_code, starts, alive, outcomes, mean, sys, snapshots,
                   pending, exit>>

\* Command::status()? -- the launch fails: main returns the error
SpawnFail ==
    /\ pc = "spawn"
    /\ Len(args.cmd) > 0
    /\ spawned' = Append(spawned, ChildArgv(platform, args.cmd))
    /\ pc' = "done"
    /\ exit' = Some(ExitFailure)
    /\ UNCHANGED <<argv, platform, args, stdout, reads, consumed, times,
                   last_code, iter, starts, alive, outcomes, mean, sys,
                   snapshots, pending>>

\* Command::status()? -- waiting on the launched child fails: main returns
\* the error (the child is left to itself)
WaitFail ==
    /\ pc = "wait"
    /\ pc' = "done"
    /\ exit' = Some(ExitFailure)
    /\ UNCHANGED <<argv, platform, args, stdout, reads, consumed, times,
                   last_code, iter, starts, spawned, alive, outcomes, mean, sys,
                   snapshots, pending>>

\* Command::status(), second half: the child ends; then the rest of the
\* loop body: elapsed, the two println!, last_code, times.push
WaitOk ==
    /\ pc = "wait"
    /\ \E code \in ChildCodes, ticks \in ElapsedTicks :
         LET elapsed == F64(ticks)
         IN  /\ outcomes' = Append(outcomes, [code |-> code, ticks |-> ticks])
             /\ stdout' = stdout \o RunLines(code, elapsed)
             /\ last_code' = NextLastCode(last_code, code)
             /\ times' = Push(times, ticks)
    /\ alive' = alive - 1
    /\ iter' = iter + 1
    /\ pc' = "loop"
    /\ UNCHANGED <<argv, platform, args, reads, consumed, starts, spawned, mean,
                   sys, snapshots, pending, exit>>

\* -------------------------------------------------------------- reporting

\* serde_json of Option<i32>: null or the number
JsonOptI32(c) == IF c = None THEN [null |-> TRUE, int |-> 0]
                 ELSE [null |-> FALSE, int |-> c[1]]

\* serde_json::to_string_pretty(&RunResult { exit_code: last_code, times, mean })
JsonSummary(code, ts, m) ==
    << [kind |-> "json",
        exit_code |-> JsonOptI32(code),
        times |-> [k \in 1..Len(ts) |-> JsonF64(F64(ts[k]))],
        mean |-> JsonF64(m)] >>

HumanSummaryFirstTime(code, runs, ts, m) ==
    << [kind |-> "Exit code", debug |-> code],
       [kind |-> "Runs", count |-> runs],
       [kind |-> "Times", list |-> ts],
       [kind |-> "Mean", secs3 |-> Fmt3(IF ts = <<>> THEN m ELSE F64(ts[1]))] >>

\* println!("Exit code: {:?}", last_code);   println!("Runs: {}", args.runs);
\* println!("Times: {:?}", times);           println!("Mean: {:.3} sec", mean);
HumanSummary(code, runs, ts, m) ==
    << [kind |-> "Exit code", debug |-> code],
       [kind |-> "Runs", count |-> runs],
       [kind |-> "Times", list |-> ts],
       [kind |-> "Mean", secs3 |-> Fmt3(m)] >>

\* the loop is over: let mean = ...; if args.json { .. } else { .. }
Report ==
    /\ pc = "loop"
    /\ iter >= args.runs
    /\ mean' = Mean(times)
    /\ stdout' = stdout \o (IF args.json
                            THEN JsonSummary(last_code, times, mean')
                            ELSE HumanSummary(last_code, args.runs, times, mean'))
    /\ pc' = "snapshot"
    /\ UNCHANGED <<argv, platform, args, reads, consumed, times, last_code,
                   iter, starts, spawned, alive, outcomes, sys, snapshots,
                   pending, exit>>

\* ------------------------------------------------------- process listing

HeaderLine == [kind |-> "header"]

\* println!("PID: {:<8} Name: {:<25} CPU: {:>5.1}%  Mem: {:>8} KiB", ...)
ProcLine(pid, process) ==
    [kind |-> "process", pid |-> pid, name |-> process.name,
     cpu |-> process.cpu_usage, mem |-> process.memory]

\* let mut sys = System::new_all(); sys.refresh_all(); println!(header)
Snapshot ==
    /\ pc = "snapshot"
    /\ \E s \in Snapshots :
         /\ sys' = s
         /\ pending' = DOMAIN s
    /\ snapshots' = snapshots + 1
    /\ stdout' = Append(stdout, HeaderLine)
    /\ pc' = "list"
    /\ UNCHANGED <<argv, platform, args, reads, consumed, times, last_code,
                   iter, starts, spawned, alive, outcomes, mean, exit>>

\* one iteration of: for (pid, process) in sys.processes() { .. }
\* (a HashMap: the order of the visits is unspecified)
VisitProcess ==
    /\ pc = "list"
    /\ \E pid \in pending :
         /\ pending' = pending \ {pid}
         /\ stdout' = IF IsRiotOrLeague(sys[pid].name)
                      THEN Append(stdout, ProcLine(pid, sys[pid]))
                      ELSE stdout
    /\ UNCHANGED <<argv, platform, pc, args, reads, consumed, times, last_code,
                   iter, starts, spawned, alive, outcomes, mean, sys, snapshots,
                   exit>>

\* Ok(())
Finish ==
    /\ pc = "list"
    /\ pending = {}
    /\ pc' = "done"
    /\ exit' = Some(ExitSuccess)
    /\ UNCHANGED <<argv, platform, args, stdout, reads, consumed, times,
                   last_code, iter, starts, spawned, alive, outcomes, mean, sys,
                   snapshots, pending>>

Next ==
    \/ Parse
    \/ GateSkip
    \/ GatePrompt
    \/ GateRead
    \/ StartRun
    \/ SpawnOk
    \/ SpawnFail
    \/ WaitOk
    \/ WaitFail
    \/ Report
    \/ Snapshot
    \/ VisitProcess
    \/ Finish

Spec == Init /\ [][Next]_vars

\* ===================================================== properties checked

\* The report has been printed.
ReportDone ==
    \/ pc \in {"snapshot", "list"}
    \/ pc = "done" /\ exit = Some(ExitSuccess)

\* The program ended with success.
EndedOk == pc = "done" /\ exit = Some(ExitSuccess)

\* The durations of the finished children, in run order.
OutcomeTicks == [k \in 1..Len(outcomes) |-> outcomes[k].ticks]

RECURSIVE TotalTicks(_)
TotalTicks(outs) ==
    IF Len(outs) = 0 THEN 0
    ELSE outs[Len(outs)].ticks + TotalTicks(SubSeq(outs, 1, Len(outs) - 1))

\* Two fractions denote the same number.
RatEq(a, b) == a.den # 0 /\ b.den # 0 /\ a.num * b.den = b.num * a.den

SummaryKinds == {"json", "Exit code", "Runs", "Times", "Mean"}

RunKinds == {"exited", "elapsed"}

IsSummaryLine(l) == l.kind \in SummaryKinds

IsRunLine(l) == l.kind \in RunKinds

IsHeaderLine(l) == l.kind = "header"

IsProcessLine(l) == l.kind = "process"

IsTimesLine(l) == l.kind \in {"json", "Times"}

SummaryLines == SelectSeq(stdout, IsSummaryLine)

\* The times sequence as the summary shows it.
ShownTimes(l) == IF l.kind = "json" THEN l.times ELSE l.list

\* C1: after k completed iterations times holds exactly k elements, the
\* elapsed times of runs 1..k in run order; and whenever the report is
\* printed for a run count N >= 1, the times sequence it prints has exactly
\* N elements.
TimesLengthIsRunCount ==
    /\ Len(times) = iter
    /\ times = OutcomeTicks
    /\ (ReportDone /\ args.runs >= 1) =>
          /\ Len(times) = args.runs
          /\ LET shown == SelectSeq(stdout, IsTimesLine)
             IN  Len(shown) = 1 /\ Len(ShownTimes(shown[1])) = args.runs

\* C1's case: a run of MaxRuns iterations has been reported.
TimesLengthWitness ==
    ReportDone /\ args.runs = MaxRuns /\ Len(times) = MaxRuns /\ MaxRuns >= 2

\* The exit code the summary shows, as an Option<i32>.
ShownCode(l) ==
    IF l.kind = "json"
    THEN (IF l.exit_code.null THEN None ELSE Some(l.exit_code.int))
    ELSE l.debug

\* C2: the exit code of the aggregate is the exit status of the final
\* iteration, whatever the earlier iterations returned: absent when the last
\* child had no exit code, the last child's code otherwise.
LastCodeIsFinalRun ==
    /\ iter >= 1 => last_code = outcomes[iter].code
    /\ (ReportDone /\ args.runs >= 1) =>
          /\ last_code = outcomes[args.runs].code
          /\ ShownCode(SummaryLines[1]) = outcomes[args.runs].code

\* C2's case: an earlier run had an exit code, the final run had none.
LastCodeWitness ==
    /\ ReportDone
    /\ args.runs >= 2
    /\ outcomes[1].code = Some(1)
    /\ outcomes[args.runs].code = None
    /\ last_code = None

\* The last launch attempted did not produce a child.
LaunchFailed == Len(spawned) = Len(outcomes) + 1 /\ alive = 0

\* A child was launched and main stopped waiting for it without its status.
WaitFailed == alive = 1 /\ pc # "wait"

\* C3: when launching or waiting on the child fails at iteration k, the
\* program is over with a failure exit code: exactly k launches were
\* attempted (no retry, no later iteration), no summary and no process
\* listing was printed, no snapshot was taken, and nothing can happen next.
SpawnFailureAborts ==
    (LaunchFailed \/ WaitFailed) =>
        /\ pc = "done"
        /\ exit = Some(ExitFailure)
        /\ Len(spawned) = iter + 1
        /\ starts = iter + 1
        /\ SummaryLines = <<>>
        /\ SelectSeq(stdout, IsHeaderLine) = <<>>
        /\ SelectSeq(stdout, IsProcessLine) = <<>>
        /\ snapshots = 0
        /\ ~ENABLED Next

\* C3's case: the launch of the first run failed with a second run asked for.
SpawnFailureWitness ==
    LaunchFailed /\ iter = 0 /\ args.runs >= 2 /\ pc = "done"

\* The -n token, when given, denotes a positive integer.
PositiveRunCount(tok) ==
    \/ tok = None
    \/ /\ ParseUsize(tok[1]) # None
       /\ ParseUsize(tok[1])[1] >= 1

\* Nothing but argument resolution happened, and it ended in a usage error
\* if it ended.
OnlyUsageError ==
    /\ pc = "parse" \/ (pc = "done" /\ exit = Some(ExitUsage))
    /\ stdout = <<>>
    /\ reads = 0
    /\ starts = 0
    /\ spawned = <<>>
    /\ snapshots = 0

\* C4: a run count that is not a valid positive integer, 0 included, is
\* rejected with a usage error before the wait gate, any launch, any timing
\* and the computation of the mean.
ZeroRunCountRejected == ~PositiveRunCount(argv.runs) => OnlyUsageError

\* C5: an empty command list ends in a usage error with nothing executed,
\* timed, read or printed; so every launch gets a command vector with the
\* executable at its head.
EmptyCommandRejected ==
    /\ argv.cmd = <<>> => OnlyUsageError
    /\ exit # Some(ExitPanic)
    /\ (pc \in {"spawn", "wait"} \/ spawned # <<>>) => Len(args.cmd) >= 1
    /\ \A k \in 1..Len(spawned) :
          /\ Len(spawned[k]) >= 1
          /\ spawned[k][IF platform = "windows" THEN 3 ELSE 1] = argv.cmd[1]

\* C5's case: a valid run count, an empty command list, the usage error.
EmptyCommandWitness ==
    /\ argv.cmd = <<>>
    /\ PositiveRunCount(argv.runs)
    /\ pc = "done"
    /\ exit = Some(ExitUsage)

\* C6: with --wait no start timestamp is taken and no child is launched
\* until one byte has been read from standard input, whatever the read
\* returns; without --wait standard input is never read.
WaitGateBlocksUntilByte ==
    /\ (argv.wait /\ (starts > 0 \/ spawned # <<>>)) => consumed = 1
    /\ ~argv.wait => (reads = 0 /\ consumed = 0)

\* The exit code, times and mean that a run of the children fixes, computed
\* from what the children did alone.
OutcomeCode == IF outcomes = <<>> THEN None ELSE outcomes[Len(outcomes)].code

OutcomeMean == [num |-> TotalTicks(outcomes), den |-> Len(outcomes)]

\* The times a JSON document shows, back as ticks (exact when den = 1).
JsonTimesShown(l) ==
    [k \in 1..Len(l.times) |-> IF l.times[k].den = 1 THEN l.times[k].num ELSE -1]

\* The JSON mean is the given number (null for NaN).
JsonShowsNumber(j, x) ==
    IF x.den = 0 THEN j.null
    ELSE ~j.null /\ RatEq([num |-> j.num, den |-> j.den], x)

\* C7: the values reported are fixed by the run outcomes alone, whichever
\* format is selected: the summary, structured or human-readable, shows the
\* last run's exit code, the elapsed times in run order and their mean (the
\* human-readable one rounded to three decimals), and the accumulated
\* last_code, times and mean are these same values in both modes.
ReportIndependentOfFormat ==
    ReportDone =>
        /\ last_code = OutcomeCode
        /\ times = OutcomeTicks
        /\ mean.den = OutcomeMean.den
        /\ mean.num = OutcomeMean.num
        /\ IF args.json
           THEN /\ Len(SummaryLines) = 1
                /\ ShownCode(SummaryLines[1]) = OutcomeCode
                /\ JsonTimesShown(SummaryLines[1]) = OutcomeTicks
                /\ JsonShowsNumber(SummaryLines[1].mean, OutcomeMean)
           ELSE /\ Len(SummaryLines) = 4
                /\ SummaryLines[1].kind = "Exit code"
                /\ SummaryLines[1].debug = OutcomeCode
                /\ SummaryLines[2].kind = "Runs"
                /\ SummaryLines[2].count = Len(outcomes)
                /\ SummaryLines[3].kind = "Times"
                /\ SummaryLines[3].list = OutcomeTicks
                /\ SummaryLines[4].kind = "Mean"
                /\ SummaryLines[4].secs3 = Fmt3(OutcomeMean)

\* C7's case: a human-readable report of runs with different times whose
\* mean rounds differently from the first time.
ReportFormatWitness ==
    /\ ReportDone
    /\ ~args.json
    /\ Len(outcomes) >= 2
    /\ Fmt3(OutcomeMean) # Fmt3(F64(outcomes[1].ticks))

\* stdout after the prompt of the wait gate, if any
Body == IF stdout # <<>> /\ stdout[1].kind = "prompt" THEN Tail(stdout) ELSE stdout

\* C8: at most one child is alive; the two lines of a run are on stdout as
\* soon as the run is over and before the next child is launched; when all
\* N >= 1 runs succeed the output is the N pairs of run lines in run order,
\* then one summary (one JSON document or four lines), then one process
\* section from the single snapshot taken after the last run, and the
\* program ends with success.
OutputOrder ==
    /\ alive <= 1
    /\ snapshots <= 1
    /\ Len(SelectSeq(stdout, IsRunLine)) = 2 * Len(outcomes)
    /\ pc = "wait" =>
          /\ alive = 1
          /\ Len(Body) = 2 * iter
          /\ Len(spawned) = iter + 1
    /\ snapshots = 1 => (iter = args.runs /\ Len(outcomes) = args.runs /\ alive = 0)
    /\ (Len(outcomes) = args.runs /\ args.runs >= 1 /\ pc = "done") =>
          LET n == args.runs
              w == IF args.json THEN 1 ELSE 4
          IN  /\ exit = Some(ExitSuccess)
              /\ snapshots = 1
              /\ Len(Body) >= 2 * n + w + 1
              /\ \A k \in 1..n :
                    /\ Body[2 * k - 1].kind = "exited"
                    /\ Body[2 * k - 1].code = outcomes[k].code
                    /\ Body[2 * k].kind = "elapsed"
                    /\ Body[2 * k].secs3 = Fmt3(F64(outcomes[k].ticks))
              /\ \A k \in (2 * n + 1)..(2 * n + w) : IsSummaryLine(Body[k])
              /\ Body[2 * n + 1].kind = (IF args.json THEN "json" ELSE "Exit code")
              /\ Body[2 * n + w + 1].kind = "header"
              /\ \A k \in (2 * n + w + 2)..Len(Body) : IsProcessLine(Body[k])

\* C8's case: several runs behind a wait gate, all finished, a process
\* section with two entries.
OutputOrderWitness ==
    /\ EndedOk
    /\ args.runs >= 2
    /\ args.wait
    /\ Len(SelectSeq(stdout, IsProcessLine)) = 2

\* A letter and its lower-case form.
SameLetter(c, low) ==
    c = low \/ \E k \in 1..26 : LowerChars[k] = low /\ UpperChars[k] = c

\* The keyword occurs in the name at some offset, letter case aside.
Occurs(kw, name) ==
    \E off \in 0..Len(name) :
        /\ off + Len(kw) <= Len(name)
        /\ \A j \in 1..Len(kw) : SameLetter(name[off + j], kw[j])

ShouldList(name) == Occurs(KwRiot, name) \/ Occurs(KwLeague, name)

ProcessLines == SelectSeq(stdout, IsProcessLine)

\* C9: a process is listed exactly when its name, letter case aside,
\* contains "riot" or "league": once every process has been visited the
\* listed pids are exactly the matching ones, each listed once under its
\* original name; of RiotClientServices, LeagueClient and notepad the first
\* two are listed.
FilterListsRiotAndLeague ==
    snapshots = 1 =>
        LET visited == (DOMAIN sys) \ pending
            listed == {ProcessLines[k].pid : k \in 1..Len(ProcessLines)}
        IN  /\ listed = {pid \in visited : ShouldList(sys[pid].name)}
            /\ Len(ProcessLines) = Cardinality(listed)
            /\ \A k \in 1..Len(ProcessLines) :
                  ProcessLines[k].name = sys[ProcessLines[k].pid].name
            /\ (sys = SnapshotB /\ pending = {}) => listed = {101, 202}
            /\ EndedOk => pending = {}

\* C9's case: the fabricated list has been listed to the end.
FilterWitness ==
    /\ EndedOk
    /\ snapshots = 1
    /\ DOMAIN sys = {101, 202, 303}
    /\ Len(ProcessLines) = 2

\* C10: for a run count N >= 1 the mean reported is the sum of the N
\* recorded times divided by N, the divisor (the length of times) being the
\* run count; for N = 1 it is the one recorded time.
MeanIsSumOverRunCount ==
    (ReportDone /\ args.runs >= 1) =>
        /\ mean.den = args.runs
        /\ mean.den = Len(times)
        /\ mean.num = TotalTicks(outcomes)
        /\ args.runs = 1 => RatEq(mean, F64(outcomes[1].ticks))
        /\ IF args.json
           THEN JsonShowsNumber(SummaryLines[1].mean,
                                [num |-> TotalTicks(outcomes), den |-> args.runs])
           ELSE SummaryLines[4].secs3 =
                    Fmt3([num |-> TotalTicks(outcomes), den |-> args.runs])

\* C10's case: two runs of different times, a mean that is neither.
MeanWitness ==
    /\ ReportDone
    /\ args.runs = 2
    /\ outcomes[1].ticks = 1
    /\ outcomes[2].ticks = 2
    /\ mean = [num |-> 3, den |-> 2]

====
